---- MODULE Spec2Model ----
(***************************************************************************)
(* Comparable Sales Valuation Engine of the property-appeal application:   *)
(* ComparableService (filter, adjust, aggregate, confidence), the AVM      *)
(* lookup of RentCastService, the /api/analysis POST handler, the methods  *)
(* of AnalysisService and the AnalysisLoading screen.                      *)
(*                                                                         *)
(* Number representation.  JavaScript numbers are modelled by integers:    *)
(*   - square feet, bedrooms, bathrooms, years: the number itself;         *)
(*   - lot size: thousandths of an acre (LotScale);                        *)
(*   - distance: hundredths of a mile (MileScale);                         *)
(*   - sale prices, assessed values, adjustments, adjusted prices: units   *)
(*     of 50 dollars (MoneyUnit; TLC's integers are 32 bits wide), written *)
(*     Dollars(440000);                                                    *)
(*   - market values (a median may be half a unit, a blend a tenth of      *)
(*     one): twentieths of a unit (MoneyScale);                            *)
(*   - NaN (the value of arithmetic on an undefined attribute, or of 0/0)  *)
(*     is a reserved integer outside every reachable range.                *)
(***************************************************************************)
EXTENDS Integers, Sequences, FiniteSets, TLC

VARIABLES
    pc,             \* position of the caller / handler
    today,          \* the instant `new Date()` yields during the call
    property,       \* the subject Property
    rawComparables, \* the Comparable objects handed to ComparableService
    comparables,    \* the array ComparableService returned
    marketValue,    \* calculateMarketValue's result (MoneyScale units)
    confidence,     \* calculateConfidence's result
    entry,          \* entry point serving the request: "route", "property",
                    \* "service", "byId" or "none"
    request,        \* the request body / argument
    avmValue,       \* the handler's avmValue (0 is null)
    response,       \* what the entry point answered
    calls,          \* provider calls made for the request, with their outcomes
    loading         \* the AnalysisLoading screen: its state, its timers, the router

serviceVars == <<pc, today, property, rawComparables, comparables, marketValue, confidence>>
serviceVars_but_pc == <<today, property, rawComparables, comparables, marketValue, confidence>>
handlerVars == <<entry, request, avmValue, response, calls>>
vars == <<serviceVars, handlerVars, loading>>

(***************************************************************************)
(* Bounds of the model                                                     *)
(***************************************************************************)
MaxCands == 2       \* longest candidate list handed to ComparableService
MaxAdjusted == 10   \* longest list of adjusted comparables handed to calculateMarketValue
MaxListings == 5    \* longest /listings/sale response body
MaxSales == 2       \* longest list of adjusted comparables handed to the assessment

\* the loading screen while it is not rendered
NoScreen ==
    [mounted |-> FALSE, progress |-> 0, currentStep |-> 0, interval |-> FALSE,
     sinceTick |-> 0, timeouts |-> <<>>, back |-> FALSE, completed |-> 0, pushed |-> <<>>]

(***************************************************************************)
(* Units and JavaScript arithmetic                                         *)
(***************************************************************************)
LotScale == 1000
MileScale == 100
MoneyUnit == 50
MoneyScale == 20

Dollars(x) == x \div MoneyUnit

NaN == 0 - 1000000000

\* a dollar amount (a multiple of MoneyUnit) in units
JsUnits(a) == IF a = NaN THEN NaN ELSE a \div MoneyUnit

JsSub(a, b) == IF a = NaN \/ b = NaN THEN NaN ELSE a - b
JsAdd(a, b) == IF a = NaN \/ b = NaN THEN NaN ELSE a + b
JsMul(a, k) == IF a = NaN THEN NaN ELSE a * k
JsNeg(a) == IF a = NaN THEN NaN ELSE 0 - a
JsAbs(a) == IF a = NaN THEN NaN ELSE IF a < 0 THEN 0 - a ELSE a
\* a > b and a < b in JavaScript: false as soon as one side is NaN
JsGt(a, b) == a # NaN /\ b # NaN /\ a > b
JsLt(a, b) == a # NaN /\ b # NaN /\ a < b

\* (c / s) < num/den and (c / s) > num/den as JavaScript evaluates them:
\* x/0 is +Infinity for x > 0, -Infinity for x < 0 and NaN for x = 0.
RatioLt(c, s, num, den) ==
    IF c = NaN \/ s = NaN THEN FALSE
    ELSE IF s = 0 THEN c < 0
    ELSE IF s > 0 THEN c * den < num * s
    ELSE c * den > num * s

RatioGt(c, s, num, den) ==
    IF c = NaN \/ s = NaN THEN FALSE
    ELSE IF s = 0 THEN c > 0
    ELSE IF s > 0 THEN c * den > num * s
    ELSE c * den < num * s

(***************************************************************************)
(* Dates: [ym |-> year * 12 + month (0 = January), d |-> day of month,     *)
(*         t |-> time of day (0 = midnight, 1 = later that day)]           *)
(***************************************************************************)
IsLeap(y) == (y % 4 = 0 /\ y % 100 # 0) \/ y % 400 = 0

DaysInMonth(ym) ==
    LET m == ym % 12
        y == ym \div 12
    IN IF m = 1 THEN (IF IsLeap(y) THEN 29 ELSE 28)
       ELSE IF m \in {3, 5, 8, 10} THEN 30
       ELSE 31

\* Date.prototype.setMonth(getMonth() - n): same day of month in the target
\* month; a day past the end of that month rolls over into the next one.
SetMonthBack(date, n) ==
    LET ym == date.ym - n
    IN IF date.d > DaysInMonth(ym)
       THEN [ym |-> ym + 1, d |-> date.d - DaysInMonth(ym), t |-> date.t]
       ELSE [ym |-> ym, d |-> date.d, t |-> date.t]

DateLt(a, b) ==
    \/ a.ym < b.ym
    \/ a.ym = b.ym /\ a.d < b.d
    \/ a.ym = b.ym /\ a.d = b.d /\ a.t < b.t

MkDate(y, m, d, t) == [ym |-> y * 12 + (m - 1), d |-> d, t |-> t]

(***************************************************************************)
(* ComparableService                                                       *)
(***************************************************************************)
AdjustmentNames == {"size", "bedroom", "bathroom", "lotSize", "age"}
NoAdjustments == [n \in {} |-> 0]

SizeRate == 150
BedroomRate == 25000
BathroomRate == 15000
LotRate == 50000
AgeRate == 1000

\* calculateAdjustments with the differences taken as adjustments (no negation)
calculateAdjustmentsUnnegated(subjectProperty, comparable) ==
    [n \in AdjustmentNames |->
       CASE n = "size" -> JsUnits(JsMul(JsSub(comparable.sqft, subjectProperty.sqft), SizeRate))
         [] n = "bedroom" -> JsUnits(JsMul(JsSub(comparable.bedrooms, subjectProperty.bedrooms), BedroomRate))
         [] n = "bathroom" -> JsUnits(JsMul(JsSub(comparable.bathrooms, subjectProperty.bathrooms), BathroomRate))
         [] n = "lotSize" ->
              LET lotDiff == JsSub(comparable.lotSize, subjectProperty.lotSize)
              IN IF lotDiff = NaN THEN NaN ELSE (lotDiff * LotRate) \div (LotScale * MoneyUnit)
         [] n = "age" -> JsUnits(JsMul(JsSub(comparable.yearBuilt, subjectProperty.yearBuilt), AgeRate))]

\* calculateAdjustments with the bedroom and bathroom rates exchanged
calculateAdjustmentsSwappedRates(subjectProperty, comparable) ==
    [n \in AdjustmentNames |->
       CASE n = "size" -> JsNeg(JsUnits(JsMul(JsSub(comparable.sqft, subjectProperty.sqft), SizeRate)))
         [] n = "bedroom" -> JsNeg(JsUnits(JsMul(JsSub(comparable.bedrooms, subjectProperty.bedrooms), BathroomRate)))
         [] n = "bathroom" -> JsNeg(JsUnits(JsMul(JsSub(comparable.bathrooms, subjectProperty.bathrooms), BedroomRate)))
         [] n = "lotSize" ->
              LET lotDiff == JsSub(comparable.lotSize, subjectProperty.lotSize)
              IN IF lotDiff = NaN THEN NaN ELSE 0 - ((lotDiff * LotRate) \div (LotScale * MoneyUnit))
         [] n = "age" -> JsNeg(JsUnits(JsMul(JsSub(comparable.yearBuilt, subjectProperty.yearBuilt), AgeRate)))]

\* calculateAdjustments(subjectProperty, comparable)
calculateAdjustments(subjectProperty, comparable) ==
    LET sizeDiff == JsSub(comparable.sqft, subjectProperty.sqft)
        sizeAdjustment == JsUnits(JsMul(sizeDiff, SizeRate))
        bedroomDiff == JsSub(comparable.bedrooms, subjectProperty.bedrooms)
        bedroomAdjustment == JsUnits(JsMul(bedroomDiff, BedroomRate))
        bathroomDiff == JsSub(comparable.bathrooms, subjectProperty.bathrooms)
        bathroomAdjustment == JsUnits(JsMul(bathroomDiff, BathroomRate))
        lotDiff == JsSub(comparable.lotSize, subjectProperty.lotSize)
        lotAdjustment == IF lotDiff = NaN THEN NaN ELSE (lotDiff * LotRate) \div (LotScale * MoneyUnit)
        ageDiff == JsSub(comparable.yearBuilt, subjectProperty.yearBuilt)
        ageAdjustment == JsUnits(JsMul(ageDiff, AgeRate))
    IN [n \in AdjustmentNames |->
          CASE n = "size" -> JsNeg(sizeAdjustment)
            [] n = "bedroom" -> JsNeg(bedroomAdjustment)
            [] n = "bathroom" -> JsNeg(bathroomAdjustment)
            [] n = "lotSize" -> JsNeg(lotAdjustment)
            [] n = "age" -> JsNeg(ageAdjustment)]

RECURSIVE SumValues(_, _)
\* Object.values(adjustments).reduce((sum, adj) => sum + adj, 0)
SumValues(f, names) ==
    IF names = {} THEN 0
    ELSE LET n == CHOOSE x \in names : TRUE
         IN JsAdd(f[n], SumValues(f, names \ {n}))

\* applyAdjustments taking the total adjustment off the sale price
applyAdjustmentsSubtracting(comparable) ==
    LET totalAdjustment == SumValues(comparable.adjustments, DOMAIN comparable.adjustments)
    IN [comparable EXCEPT !.adjustedPrice = JsSub(comparable.salePrice, totalAdjustment)]

\* applyAdjustments adding the total adjustment to the price already adjusted
applyAdjustmentsCompounding(comparable) ==
    LET totalAdjustment == SumValues(comparable.adjustments, DOMAIN comparable.adjustments)
    IN [comparable EXCEPT !.adjustedPrice = JsAdd(comparable.adjustedPrice, totalAdjustment)]

\* applyAdjustments(comparable): the comparable with adjustedPrice rewritten
applyAdjustments(comparable) ==
    LET totalAdjustment == SumValues(comparable.adjustments, DOMAIN comparable.adjustments)
    IN [comparable EXCEPT !.adjustedPrice = JsAdd(comparable.salePrice, totalAdjustment)]

SizeRatioMinNum == 8
SizeRatioMaxNum == 12
LotRatioMinNum == 75
LotRatioMaxNum == 125
TenthDen == 10
HundredthDen == 100
MaxRoomDiff == 1
MaxDistanceMiles == 1
MonthsBack == 6

\* the callback of comparables.filter(...) in filterComparables
filterKeeps(comp, subjectProperty, now) ==
    LET bedroomDiff == JsAbs(JsSub(comp.bedrooms, subjectProperty.bedrooms))
        bathroomDiff == JsAbs(JsSub(comp.bathrooms, subjectProperty.bathrooms))
        sixMonthsAgo == SetMonthBack(now, MonthsBack)
    IN IF RatioLt(comp.sqft, subjectProperty.sqft, SizeRatioMinNum, TenthDen)
          \/ RatioGt(comp.sqft, subjectProperty.sqft, SizeRatioMaxNum, TenthDen)
       THEN FALSE
       ELSE IF JsGt(bedroomDiff, MaxRoomDiff) THEN FALSE
       ELSE IF JsGt(bathroomDiff, MaxRoomDiff) THEN FALSE
       ELSE IF RatioLt(comp.lotSize, subjectProperty.lotSize, LotRatioMinNum, HundredthDen)
               \/ RatioGt(comp.lotSize, subjectProperty.lotSize, LotRatioMaxNum, HundredthDen)
       THEN FALSE
       ELSE IF JsGt(comp.distanceMiles, MaxDistanceMiles * MileScale) THEN FALSE
       ELSE IF DateLt(comp.saleDate, sixMonthsAgo) THEN FALSE
       ELSE TRUE

\* filterComparables falling back to every candidate when fewer than three survive
filterComparablesRelaxing(comps, subjectProperty, now) ==
    LET strict == SelectSeq(comps, LAMBDA comp : filterKeeps(comp, subjectProperty, now))
    IN IF Len(strict) < 3 THEN comps ELSE strict

\* filterComparables(comparables, subjectProperty): the returned array holds
\* the kept objects themselves (field ref is the object's identity)
filterComparables(comps, subjectProperty, now) ==
    SelectSeq(comps, LAMBDA comp : filterKeeps(comp, subjectProperty, now))

RECURSIVE InsertSorted(_, _)
InsertSorted(sorted, x) ==
    IF sorted = <<>> THEN <<x>>
    ELSE IF x < Head(sorted) THEN <<x>> \o sorted
    ELSE <<Head(sorted)>> \o InsertSorted(Tail(sorted), x)

RECURSIVE SortAscending(_)
\* adjustedPrices.sort((a, b) => a - b)
SortAscending(s) ==
    IF s = <<>> THEN <<>>
    ELSE InsertSorted(SortAscending(Tail(s)), Head(s))

TrimPercent == 20

\* removeCount rounding up instead of down
removeCountCeiling(n) == (n * TrimPercent + 99) \div 100

\* Math.floor(adjustedPrices.length * 0.2)
removeCount(n) == (n * TrimPercent) \div 100

RECURSIVE SumSeq(_)
SumSeq(q) == IF q = <<>> THEN 0 ELSE Head(q) + SumSeq(Tail(q))

\* the mean of the trimmed prices instead of their median
meanOf(trimmed) ==
    IF Len(trimmed) = 0 THEN NaN
    ELSE (SumSeq(trimmed) * MoneyScale) \div Len(trimmed)

\* the median expression of calculateMarketValue, in MoneyScale units;
\* reading an index outside the array yields undefined, hence NaN
medianOf(trimmed) ==
    LET mid == Len(trimmed) \div 2
    IN IF Len(trimmed) = 0 THEN NaN
       ELSE IF Len(trimmed) % 2 = 0
       THEN JsMul(JsAdd(trimmed[mid], trimmed[mid + 1]), MoneyScale \div 2)
       ELSE JsMul(trimmed[mid + 1], MoneyScale)

\* adjustedPrices.slice(removeCount, adjustedPrices.length - removeCount)
sliceTrimmed(sorted) ==
    LET rc == removeCount(Len(sorted))
    IN SubSeq(sorted, rc + 1, Len(sorted) - rc)

adjustedPricesOf(comps) == [i \in 1..Len(comps) |-> comps[i].adjustedPrice]

\* calculateMarketValue(comparables), all adjusted prices being numbers
calculateMarketValue(comps) ==
    IF Len(comps) = 0 THEN 0
    ELSE medianOf(sliceTrimmed(SortAscending(adjustedPricesOf(comps))))

HasNaN(prices) == \E i \in 1..Len(prices) : prices[i] = NaN

\* The arrays sort((a, b) => a - b) may leave.  With a NaN among the prices
\* the comparator is inconsistent and the order is implementation-defined:
\* any permutation of the input.
SortOutcomes(prices) ==
    IF ~HasNaN(prices) THEN {SortAscending(prices)}
    ELSE LET n == Len(prices)
             perms == {f \in [1..n -> 1..n] : \A i, j \in 1..n : f[i] = f[j] => i = j}
         IN {[i \in 1..n |-> prices[f[i]]] : f \in perms}

\* the values calculateMarketValue(comparables) may return
calculateMarketValueOutcomes(comps) ==
    IF Len(comps) = 0 THEN {calculateMarketValue(comps)}
    ELSE IF ~HasNaN(adjustedPricesOf(comps)) THEN {calculateMarketValue(comps)}
    ELSE {medianOf(sliceTrimmed(sorted)) : sorted \in SortOutcomes(adjustedPricesOf(comps))}

HighCount == 5
MediumCount == 3

\* calculateConfidence asking for more than five comparables for "high"
calculateConfidenceAboveFive(comps) ==
    LET count == Len(comps)
    IN IF count > HighCount THEN "high"
       ELSE IF count >= MediumCount THEN "medium"
       ELSE "low"

\* calculateConfidence(comparables)
calculateConfidence(comps) ==
    LET count == Len(comps)
    IN IF count >= HighCount THEN "high"
       ELSE IF count >= MediumCount THEN "medium"
       ELSE "low"

\* the callback of filteredComparables.map(...) in processComparables
adjustOne(comp, subjectProperty) ==
    applyAdjustments([comp EXCEPT !.adjustments = calculateAdjustments(subjectProperty, comp)])

\* processComparables(rawComparables, subjectProperty): the results it may
\* return.  The map callback writes adjustments and adjustedPrice into the
\* objects that survived the filter, which are objects of rawComparables:
\* heap is rawComparables after the call.
processComparables(raw, subjectProperty, now) ==
    LET kept == filterComparables(raw, subjectProperty, now)
        filteredComparables == [k \in 1..Len(kept) |-> adjustOne(kept[k], subjectProperty)]
        heap == [i \in 1..Len(raw) |->
                   IF \E k \in 1..Len(kept) : kept[k].ref = raw[i].ref
                   THEN adjustOne(raw[i], subjectProperty)
                   ELSE raw[i]]
    IN {[comparables |-> filteredComparables,
         marketValue |-> mv,
         confidence |-> calculateConfidence(filteredComparables),
         heap |-> heap] : mv \in calculateMarketValueOutcomes(filteredComparables)}

(***************************************************************************)
(* RentCastMapper, RentCastService and PropertyService                     *)
(*                                                                         *)
(* Coordinates: all points lie on one meridian; latitude is the position   *)
(* along it in hundredths of a mile of arc, so the Haversine distance of   *)
(* two points is the absolute difference of their latitudes.  0 and NaN    *)
(* (undefined) are the falsy coordinates.                                  *)
(***************************************************************************)
NoDate == [ym |-> 0, d |-> 0, t |-> 0]     \* an absent (undefined / null) date string

Truthy(x) == x # NaN /\ x # 0
JsOr(a, b) == IF Truthy(a) THEN a ELSE b    \* a || b on numbers
DateOr(a, b) == IF a # NoDate THEN a ELSE b \* a || b on date strings

MsgNotFoundRentCast == "Property not found in RentCast database"
MsgRateLimit == "RentCast API rate limit exceeded"
MsgApiError == "RentCast API error"
MsgUnexpectedFormat == "Unexpected response format from RentCast"
MsgNetwork == "Network Error"
MsgNotFoundService == "Property not found: <address>. Please check the address and try again."
MsgUnavailable == "Service temporarily unavailable. Please try again in a few minutes."
MsgBadJson == "Unexpected token in JSON"
MsgNotFoundById == "Property not found"

\* error.message.includes(needle)
Includes(message, needle) ==
    CASE needle = "not found" -> message \in {MsgNotFoundRentCast, MsgNotFoundService}
      [] needle = "rate limit" -> message = MsgRateLimit
      [] OTHER -> FALSE

Value(v) == [kind |-> "value", value |-> v, message |-> ""]
Throw(m) == [kind |-> "throw", value |-> 0, message |-> m]
Null == [kind |-> "null", value |-> 0, message |-> ""]

\* RentCastMapper.mapToProperty(record); record.assessedValue stands for the
\* value of the latest entry of record.taxAssessments (NaN when there is none)
mapToProperty(record) ==
    [sqft |-> record.squareFootage, bedrooms |-> record.bedrooms,
     bathrooms |-> record.bathrooms, lotSize |-> record.lotSize,
     yearBuilt |-> record.yearBuilt,
     currentAssessedValue |-> JsOr(record.assessedValue, NaN),
     latitude |-> record.latitude]

\* mapToComparable passing the provider's distance on as it is
mapToComparableKeepingNoDistance(comparable, subjectProperty, now, ref) ==
    LET saleDate == DateOr(comparable.lastSaleDate,
                       DateOr(comparable.removedDate, DateOr(comparable.listedDate, now)))
        salePrice == JsOr(comparable.price, JsOr(comparable.lastSalePrice, 0))
    IN [ref |-> ref, salePrice |-> salePrice, saleDate |-> saleDate,
        distanceMiles |-> comparable.distance,
        sqft |-> comparable.squareFootage, bedrooms |-> comparable.bedrooms,
        bathrooms |-> comparable.bathrooms, lotSize |-> comparable.lotSize,
        yearBuilt |-> comparable.yearBuilt,
        adjustments |-> NoAdjustments, adjustedPrice |-> salePrice]

\* RentCastMapper.mapToComparable(comparable, subjectProperty)
mapToComparable(comparable, subjectProperty, now, ref) ==
    LET saleDate == DateOr(comparable.lastSaleDate,
                       DateOr(comparable.removedDate, DateOr(comparable.listedDate, now)))
        salePrice == JsOr(comparable.price, JsOr(comparable.lastSalePrice, 0))
    IN [ref |-> ref, salePrice |-> salePrice, saleDate |-> saleDate,
        distanceMiles |-> JsOr(comparable.distance, 0),
        sqft |-> comparable.squareFootage, bedrooms |-> comparable.bedrooms,
        bathrooms |-> comparable.bathrooms, lotSize |-> comparable.lotSize,
        yearBuilt |-> comparable.yearBuilt,
        adjustments |-> NoAdjustments, adjustedPrice |-> salePrice]

\* PropertyService.calculateDistance on the model's meridian
calculateDistance(lat1, lat2) == IF lat1 < lat2 THEN lat2 - lat1 ELSE lat1 - lat2

\* RentCastService.getPropertyByAddress, given the outcome of GET /properties
getPropertyByAddress(outcome) ==
    CASE outcome.kind = "ok" -> Value(outcome.record)
      [] outcome.kind = "empty" -> Throw(MsgNotFoundRentCast)
      [] outcome.kind = "errorWrapper" -> Throw(MsgApiError)
      [] outcome.kind = "nonArray" -> Throw(MsgUnexpectedFormat)
      [] outcome.kind = "http404" -> Throw(MsgNotFoundRentCast)
      [] outcome.kind = "http429" -> Throw(MsgRateLimit)
      [] OTHER -> Throw(MsgNetwork)

\* PropertyService.getPropertyById over RentCastService.getPropertyById, given
\* the outcome of GET /properties/{id}
getPropertyById(outcome) ==
    CASE outcome.kind = "ok" -> Value(mapToProperty(outcome.record))
      [] outcome.kind = "http404" -> Throw(MsgNotFoundById)
      [] outcome.kind = "http429" -> Throw(MsgRateLimit)
      [] OTHER -> Throw(MsgNetwork)

\* lookupProperty reporting a missing record as a service outage
lookupPropertyUnavailableOnNotFound(outcome) ==
    LET r == getPropertyByAddress(outcome)
    IN IF r.kind = "value" THEN Value(mapToProperty(r.value))
       ELSE IF Includes(r.message, "not found") THEN Throw(MsgUnavailable)
       ELSE IF Includes(r.message, "rate limit") THEN Throw(MsgUnavailable)
       ELSE r

\* PropertyService.lookupProperty
lookupProperty(outcome) ==
    LET r == getPropertyByAddress(outcome)
    IN IF r.kind = "value" THEN Value(mapToProperty(r.value))
       ELSE IF Includes(r.message, "not found") THEN Throw(MsgNotFoundService)
       ELSE IF Includes(r.message, "rate limit") THEN Throw(MsgUnavailable)
       ELSE r

\* getComparableSales of the provider client raising on HTTP 404 as well
rentCastGetComparableSalesThrowingOn404(outcome, monthsBack, now) ==
    IF outcome.kind = "ok"
    THEN LET sold == SelectSeq(outcome.data, LAMBDA comp :
                        comp.status = "Sold" \/ comp.status = "Inactive"
                        \/ comp.lastSaleDate # NoDate)
             cutoffDate == SetMonthBack(now, monthsBack)
             recent == IF monthsBack > 0
                       THEN SelectSeq(sold, LAMBDA comp :
                               LET saleDate == DateOr(comp.lastSaleDate,
                                                  DateOr(comp.removedDate, comp.listedDate))
                               IN saleDate # NoDate /\ ~DateLt(saleDate, cutoffDate))
                       ELSE sold
         IN Value(recent)
    ELSE IF outcome.kind = "http429" THEN Throw(MsgRateLimit)
    ELSE IF outcome.kind = "http404" THEN Throw(MsgNotFoundRentCast)
    ELSE Value(<<>>)

\* RentCastService.getComparableSales, given the outcome of GET /listings/sale
rentCastGetComparableSales(outcome, monthsBack, now) ==
    IF outcome.kind = "ok"
    THEN LET sold == SelectSeq(outcome.data, LAMBDA comp :
                        comp.status = "Sold" \/ comp.status = "Inactive"
                        \/ comp.lastSaleDate # NoDate)
             cutoffDate == SetMonthBack(now, monthsBack)
             recent == IF monthsBack > 0
                       THEN SelectSeq(sold, LAMBDA comp :
                               LET saleDate == DateOr(comp.lastSaleDate,
                                                  DateOr(comp.removedDate, comp.listedDate))
                               IN saleDate # NoDate /\ ~DateLt(saleDate, cutoffDate))
                       ELSE sold
         IN Value(recent)
    ELSE IF outcome.kind = "http429" THEN Throw(MsgRateLimit)
    ELSE Value(<<>>)

\* getComparableSales rejecting when the provider has no sale to offer
getComparableSalesRejectingEmpty(subjectProperty, outcome, now) ==
    LET r == rentCastGetComparableSales(outcome, MonthsBack, now)
    IN IF r.kind # "value" THEN r
       ELSE IF r.value = <<>> THEN Throw(MsgNotFoundRentCast)
       ELSE Value([i \in 1..Len(r.value) |->
                LET comp == r.value[i]
                    mapped == mapToComparable(comp, subjectProperty, now, i)
                IN IF Truthy(subjectProperty.latitude) /\ Truthy(comp.latitude)
                   THEN [mapped EXCEPT !.distanceMiles =
                            calculateDistance(subjectProperty.latitude, comp.latitude)]
                   ELSE mapped])

\* PropertyService.getComparableSales(property, {radiusMiles: 1.0, monthsBack: 6})
getComparableSales(subjectProperty, outcome, now) ==
    LET r == rentCastGetComparableSales(outcome, MonthsBack, now)
    IN IF r.kind # "value" THEN r
       ELSE Value([i \in 1..Len(r.value) |->
                LET comp == r.value[i]
                    mapped == mapToComparable(comp, subjectProperty, now, i)
                IN IF Truthy(subjectProperty.latitude) /\ Truthy(comp.latitude)
                   THEN [mapped EXCEPT !.distanceMiles =
                            calculateDistance(subjectProperty.latitude, comp.latitude)]
                   ELSE mapped])

\* RentCastService.getValueEstimate, given the outcome of GET /properties/{id}/value-estimate
getValueEstimate(outcome) ==
    IF outcome.kind = "ok" THEN JsOr(outcome.estimate, 0) ELSE 0

\* RentCastService.getPropertyValuation when GET /avm/value did not answer 404
valuationOfAvm(outcome) ==
    IF outcome.kind = "ok" /\ outcome.hasSubject THEN Value(outcome.price) ELSE Null

(***************************************************************************)
(* The analysis: /api/analysis POST and AnalysisService.analyzeProperty    *)
(***************************************************************************)
BlendComparablesTenths == 7
BlendAvmTenths == 3
BlendBelowCount == 3
FairPercent == 5
TaxRateThousandths == 55
MonthsPerYear == 12
\* savings are in 1/240000 of a dollar: MoneyScale * 1000 (tax rate) * 12 (months)

NoProperty ==
    [sqft |-> NaN, bedrooms |-> NaN, bathrooms |-> NaN, lotSize |-> NaN,
     yearBuilt |-> NaN, currentAssessedValue |-> NaN, latitude |-> NaN]

NoRequest == [json |-> FALSE, address |-> "none", verifiedProperty |-> NoProperty]

NoAnalysis == [marketValue |-> 0]

NoResponse == [kind |-> "none", status |-> 0, error |-> "", analysis |-> NoAnalysis]

\* avmValue = avmResult?.value || null, null being 0; a thrown error is caught
avmValueOf(avmResult) ==
    IF avmResult.kind = "value" THEN JsOr(avmResult.value, 0) ELSE 0

\* percentageDifference guarded by assessedValue !== 0 only
percentageDifferenceOfNonZero(assessedValue, difference) ==
    IF assessedValue # 0
    THEN [num |-> difference * 100, den |-> assessedValue * MoneyScale]
    ELSE [num |-> 0, den |-> 1]

\* percentageDifference = assessedValue > 0 ? (difference / assessedValue) * 100 : 0,
\* as the fraction num / den (den > 0); difference is in twentieths of a unit
percentageDifferenceOf(assessedValue, difference) ==
    IF assessedValue > 0
    THEN [num |-> difference * 100, den |-> assessedValue * MoneyScale]
    ELSE [num |-> 0, den |-> 1]

\* the verdict with Math.abs(percentageDifference) < 5 as the test for fair
verdictOfStrictlyBelow(pctNum, pctDen) ==
    LET absPct == IF pctNum < 0 THEN 0 - pctNum ELSE pctNum
    IN IF absPct < FairPercent * pctDen THEN "fair"
       ELSE IF pctNum > FairPercent * pctDen THEN "over-assessed"
       ELSE "under-assessed"

\* the verdict chain: Math.abs(percentageDifference) <= 5, then > 5, else
verdictOf(pctNum, pctDen) ==
    LET absPct == IF pctNum < 0 THEN 0 - pctNum ELSE pctNum
    IN IF absPct <= FairPercent * pctDen THEN "fair"
       ELSE IF pctNum > FairPercent * pctDen THEN "over-assessed"
       ELSE "under-assessed"

\* annualSavings computed for every verdict other than fair
annualSavingsOfNotFair(verdict, difference) ==
    LET absDifference == IF difference < 0 THEN 0 - difference ELSE difference
    IN IF verdict # "fair"
       THEN absDifference * TaxRateThousandths * MonthsPerYear
       ELSE 0

\* annualSavings = verdict === 'over-assessed' ? Math.abs(difference) * taxRate : 0
annualSavingsOf(verdict, difference) ==
    LET absDifference == IF difference < 0 THEN 0 - difference ELSE difference
    IN IF verdict = "over-assessed"
       THEN absDifference * TaxRateThousandths * MonthsPerYear
       ELSE 0

\* buildAnalysis blending also when exactly three comparables survived
buildAnalysisBlendAtThree(prop, comps, mv, conf, avm) ==
    LET finalMarketValue ==
            IF Truthy(avm) /\ Len(comps) <= BlendBelowCount
            THEN (mv * BlendComparablesTenths + avm * MoneyScale * BlendAvmTenths) \div 10
            ELSE mv
        assessedValue == JsOr(prop.currentAssessedValue, 0)
        difference == assessedValue * MoneyScale - finalMarketValue
        pctNum == IF assessedValue > 0 THEN difference * 100 ELSE 0
        pctDen == IF assessedValue > 0 THEN assessedValue * MoneyScale ELSE 1
        absPct == IF pctNum < 0 THEN 0 - pctNum ELSE pctNum
        verdict == IF absPct <= FairPercent * pctDen THEN "fair"
                   ELSE IF pctNum > FairPercent * pctDen THEN "over-assessed"
                   ELSE "under-assessed"
        absDifference == IF difference < 0 THEN 0 - difference ELSE difference
        annualSavings == IF verdict = "over-assessed"
                         THEN absDifference * TaxRateThousandths * MonthsPerYear
                         ELSE 0
    IN [property |-> prop, comparables |-> comps, marketValue |-> finalMarketValue,
        assessedValue |-> assessedValue, difference |-> difference,
        pctNum |-> pctNum, pctDen |-> pctDen, taxRate |-> TaxRateThousandths,
        annualSavings |-> annualSavings, monthlySavings |-> annualSavings \div MonthsPerYear,
        confidence |-> [level |-> conf, sampleSize |-> Len(comps)],
        verdict |-> verdict]

\* buildAnalysis comparing the assessment with the value before blending
buildAnalysisDifferenceBeforeBlend(prop, comps, mv, conf, avm) ==
    LET finalMarketValue ==
            IF Truthy(avm) /\ Len(comps) < BlendBelowCount
            THEN (mv * BlendComparablesTenths + avm * MoneyScale * BlendAvmTenths) \div 10
            ELSE mv
        assessedValue == JsOr(prop.currentAssessedValue, 0)
        difference == assessedValue * MoneyScale - mv
        pct == percentageDifferenceOf(assessedValue, difference)
        verdict == verdictOf(pct.num, pct.den)
        annualSavings == annualSavingsOf(verdict, difference)
    IN [property |-> prop, comparables |-> comps, marketValue |-> finalMarketValue,
        assessedValue |-> assessedValue, difference |-> difference,
        pctNum |-> pct.num, pctDen |-> pct.den, taxRate |-> TaxRateThousandths,
        annualSavings |-> annualSavings, monthlySavings |-> annualSavings \div MonthsPerYear,
        confidence |-> [level |-> conf, sampleSize |-> Len(comps)],
        verdict |-> verdict]

\* steps 5 to 8 of analyzeProperty and the same lines of the POST handler
buildAnalysis(prop, comps, mv, conf, avm) ==
    LET finalMarketValue ==
            IF Truthy(avm) /\ Len(comps) < BlendBelowCount
            THEN (mv * BlendComparablesTenths + avm * MoneyScale * BlendAvmTenths) \div 10
            ELSE mv
        assessedValue == JsOr(prop.currentAssessedValue, 0)
        difference == assessedValue * MoneyScale - finalMarketValue
        pct == percentageDifferenceOf(assessedValue, difference)
        verdict == verdictOf(pct.num, pct.den)
        annualSavings == annualSavingsOf(verdict, difference)
        monthlySavings == annualSavings \div MonthsPerYear
    IN [property |-> prop,
        comparables |-> comps,
        marketValue |-> finalMarketValue,
        assessedValue |-> assessedValue,
        difference |-> difference,
        pctNum |-> pct.num,
        pctDen |-> pct.den,
        taxRate |-> TaxRateThousandths,
        annualSavings |-> annualSavings,
        monthlySavings |-> monthlySavings,
        confidence |-> [level |-> conf, sampleSize |-> Len(comps)],
        verdict |-> verdict]

\* steps of AnalysisService.getAnalysisByPropertyId after processComparables
getAnalysisByPropertyIdResult(prop, comps, mv, conf) ==
    LET assessedValue == JsOr(prop.currentAssessedValue, 0)
        difference == assessedValue * MoneyScale - mv
        percentageDifference ==
            IF assessedValue > 0
            THEN [num |-> difference * 100, den |-> assessedValue * MoneyScale]
            ELSE [num |-> 0, den |-> 1]
        absPercentage == IF percentageDifference.num < 0
                         THEN 0 - percentageDifference.num ELSE percentageDifference.num
        verdict == IF absPercentage <= FairPercent * percentageDifference.den THEN "fair"
                   ELSE IF percentageDifference.num > FairPercent * percentageDifference.den
                   THEN "over-assessed"
                   ELSE "under-assessed"
        absDifference == IF difference < 0 THEN 0 - difference ELSE difference
        annualSavings == IF verdict = "over-assessed"
                         THEN absDifference * TaxRateThousandths * MonthsPerYear
                         ELSE 0
        monthlySavings == annualSavings \div MonthsPerYear
    IN [property |-> prop,
        comparables |-> comps,
        marketValue |-> mv,
        assessedValue |-> assessedValue,
        difference |-> difference,
        pctNum |-> percentageDifference.num,
        pctDen |-> percentageDifference.den,
        taxRate |-> TaxRateThousandths,
        annualSavings |-> annualSavings,
        monthlySavings |-> monthlySavings,
        confidence |-> [level |-> conf, sampleSize |-> Len(comps)],
        verdict |-> verdict]

\* analyzeProperty leaving the AVM value out of the market value
analyzePropertyResultNeverBlending(prop, comps, mv, conf, avm) ==
    getAnalysisByPropertyIdResult(prop, comps, mv, conf)

\* steps 5 to 8 of AnalysisService.analyzeProperty and the object it returns
analyzePropertyResult(prop, comps, mv, conf, avm) ==
    LET finalMarketValue ==
            IF Truthy(avm) /\ Len(comps) < BlendBelowCount
            THEN (mv * BlendComparablesTenths + avm * MoneyScale * BlendAvmTenths) \div 10
            ELSE mv
        assessedValue == JsOr(prop.currentAssessedValue, 0)
        difference == assessedValue * MoneyScale - finalMarketValue
        percentageDifference ==
            IF assessedValue > 0
            THEN [num |-> difference * 100, den |-> assessedValue * MoneyScale]
            ELSE [num |-> 0, den |-> 1]
        absPercentage == IF percentageDifference.num < 0
                         THEN 0 - percentageDifference.num ELSE percentageDifference.num
        verdict == IF absPercentage <= FairPercent * percentageDifference.den THEN "fair"
                   ELSE IF percentageDifference.num > FairPercent * percentageDifference.den
                   THEN "over-assessed"
                   ELSE "under-assessed"
        absDifference == IF difference < 0 THEN 0 - difference ELSE difference
        annualSavings == IF verdict = "over-assessed"
                         THEN absDifference * TaxRateThousandths * MonthsPerYear
                         ELSE 0
        monthlySavings == annualSavings \div MonthsPerYear
    IN [property |-> prop,
        comparables |-> comps,
        marketValue |-> finalMarketValue,
        assessedValue |-> assessedValue,
        difference |-> difference,
        pctNum |-> percentageDifference.num,
        pctDen |-> percentageDifference.den,
        taxRate |-> TaxRateThousandths,
        annualSavings |-> annualSavings,
        monthlySavings |-> monthlySavings,
        confidence |-> [level |-> conf, sampleSize |-> Len(comps)],
        verdict |-> verdict]

\* the catch block of a route handler (/api/analysis, /api/property) or the
\* rejected promise of AnalysisService.analyzeProperty
failure(ent, message) ==
    IF ent \in {"route", "property"}
    THEN [kind |-> "json",
          status |-> IF Includes(message, "not found") THEN 404
                     ELSE IF Includes(message, "rate limit") THEN 429
                     ELSE 500,
          error |-> message, analysis |-> NoAnalysis]
    ELSE [kind |-> "throw", status |-> 0, error |-> message, analysis |-> NoAnalysis]

\* completeAnalysis treating a missing valuation as fatal
completeAnalysisRequiringAvm(ent, prop, comps, mv, conf, avmResult) ==
    IF avmResult.kind # "value" THEN failure(ent, MsgNetwork)
    ELSE [kind |-> IF ent = "route" THEN "json" ELSE "return",
          status |-> IF ent = "route" THEN 200 ELSE 0,
          error |-> "",
          analysis |-> buildAnalysis(prop, comps, mv, conf, avmValueOf(avmResult))]

\* the answer once getPropertyValuation has settled with avmResult
completeAnalysis(ent, prop, comps, mv, conf, avmResult) ==
    [kind |-> IF ent = "route" THEN "json" ELSE "return",
     status |-> IF ent = "route" THEN 200 ELSE 0,
     error |-> "",
     analysis |-> IF ent = "route"
                  THEN buildAnalysis(prop, comps, mv, conf, avmValueOf(avmResult))
                  ELSE analyzePropertyResult(prop, comps, mv, conf, avmValueOf(avmResult))]

(***************************************************************************)
(* Inputs of the ComparableService specification                           *)
(***************************************************************************)
BaseSubject ==
    [sqft |-> 2000, bedrooms |-> 3, bathrooms |-> 2, lotSize |-> 250,
     yearBuilt |-> 2010, currentAssessedValue |-> Dollars(500000), latitude |-> 1000]

ServiceSubjects ==
    {BaseSubject,
     [BaseSubject EXCEPT !.sqft = 0],
     [BaseSubject EXCEPT !.lotSize = 0],
     [BaseSubject EXCEPT !.lotSize = NaN]}

Todays == {MkDate(2025, 6, 15, 1), MkDate(2025, 8, 31, 1)}

BaseCandidate ==
    [ref |-> 0, salePrice |-> Dollars(400000), saleDate |-> MkDate(2025, 5, 1, 0), distanceMiles |-> 50,
     sqft |-> 2000, bedrooms |-> 3, bathrooms |-> 2, lotSize |-> 250,
     yearBuilt |-> 2010, adjustments |-> NoAdjustments, adjustedPrice |-> Dollars(400000)]

SqftValues == {NaN, 0, 1599, 1600, 1800, 2400, 2401}
BedroomValues == {1, 2, 4, 5}
BathroomValues == {0, 1, 3, 4}
LotValues == {NaN, 0, 187, 188, 312, 313}
YearValues == {2000, 2020}
DistanceValues == {0, 100, 101}
SaleDates ==
    {MkDate(2024, 12, 14, 1), MkDate(2024, 12, 15, 0), MkDate(2024, 12, 15, 1),
     MkDate(2025, 3, 1, 0), MkDate(2025, 3, 3, 1), MkDate(2025, 3, 4, 0)}
PriceValues == {Dollars(380000), Dollars(450000)}

\* the base candidate and every candidate differing from it in one attribute
Candidates ==
    {BaseCandidate}
    \cup {[BaseCandidate EXCEPT !.sqft = v] : v \in SqftValues}
    \cup {[BaseCandidate EXCEPT !.bedrooms = v] : v \in BedroomValues}
    \cup {[BaseCandidate EXCEPT !.bathrooms = v] : v \in BathroomValues}
    \cup {[BaseCandidate EXCEPT !.lotSize = v] : v \in LotValues}
    \cup {[BaseCandidate EXCEPT !.yearBuilt = v] : v \in YearValues}
    \cup {[BaseCandidate EXCEPT !.distanceMiles = v] : v \in DistanceValues}
    \cup {[BaseCandidate EXCEPT !.saleDate = v] : v \in SaleDates}
    \cup {[BaseCandidate EXCEPT !.salePrice = v, !.adjustedPrice = v] : v \in PriceValues}

(***************************************************************************)
(* Specification of ComparableService: a caller builds a candidate list    *)
(* and calls one of the public methods on it.                              *)
(***************************************************************************)
InitService ==
    /\ pc = "build"
    /\ today \in Todays
    /\ property \in ServiceSubjects
    /\ rawComparables = <<>>
    /\ comparables = <<>>
    /\ marketValue = 0
    /\ confidence = "low"
    /\ entry = "none"
    /\ request = NoRequest
    /\ avmValue = 0
    /\ response = NoResponse
    /\ calls = <<>>
    /\ loading = NoScreen

AddCandidate ==
    /\ pc = "build"
    /\ Len(rawComparables) < MaxCands
    /\ \E c \in Candidates :
          rawComparables' = Append(rawComparables, [c EXCEPT !.ref = Len(rawComparables) + 1])
    /\ UNCHANGED <<pc, today, property, comparables, marketValue, confidence>>
    /\ UNCHANGED handlerVars
    /\ UNCHANGED loading

\* comparableService.filterComparables(rawComparables, property)
CallFilter ==
    /\ pc = "build"
    /\ pc' = "filtered"
    /\ comparables' = filterComparables(rawComparables, property, today)
    /\ UNCHANGED <<today, property, rawComparables, marketValue, confidence>>
    /\ UNCHANGED handlerVars
    /\ UNCHANGED loading

\* calculateAdjustments and applyAdjustments called on every candidate
CallAdjust ==
    /\ pc = "build"
    /\ pc' = "adjusted"
    /\ rawComparables' = [i \in 1..Len(rawComparables) |-> adjustOne(rawComparables[i], property)]
    /\ comparables' = rawComparables'
    /\ UNCHANGED <<today, property, marketValue, confidence>>
    /\ UNCHANGED handlerVars
    /\ UNCHANGED loading

\* comparableService.processComparables(rawComparables, property)
CallProcess ==
    /\ pc = "build"
    /\ pc' = "processed"
    /\ \E r \in processComparables(rawComparables, property, today) :
          /\ rawComparables' = r.heap
          /\ comparables' = r.comparables
          /\ marketValue' = r.marketValue
          /\ confidence' = r.confidence
    /\ UNCHANGED <<today, property>>
    /\ UNCHANGED handlerVars
    /\ UNCHANGED loading

\* a second comparableService.processComparables(rawComparables, property) on
\* the same array, the same subject and the same date.  Array.prototype.sort
\* is a function of the array it is given: on the prices of the first call it
\* leaves the order, and so the median, of the first call.
CallProcessAgain ==
    /\ pc = "processed"
    /\ pc' = "processed2"
    /\ \E r \in processComparables(rawComparables, property, today) :
          /\ adjustedPricesOf(r.comparables) = adjustedPricesOf(comparables)
                => r.marketValue = marketValue
          /\ rawComparables' = r.heap
          /\ comparables' = r.comparables
          /\ marketValue' = r.marketValue
          /\ confidence' = r.confidence
    /\ UNCHANGED <<today, property>>
    /\ UNCHANGED handlerVars
    /\ UNCHANGED loading

NextService == AddCandidate \/ CallFilter \/ CallAdjust \/ CallProcess \/ CallProcessAgain

SpecService == InitService /\ [][NextService]_vars

(***************************************************************************)
(* Specification of the aggregation: a caller collects adjusted            *)
(* comparables and calls calculateMarketValue or calculateConfidence.      *)
(***************************************************************************)
AdjustedPriceValues == {Dollars(435000), Dollars(440000), Dollars(455050)}

InitAggregate ==
    /\ pc = "collect"
    /\ today = MkDate(2025, 6, 15, 1)
    /\ property = BaseSubject
    /\ rawComparables = <<>>
    /\ comparables = <<>>
    /\ marketValue = 0
    /\ confidence = "low"
    /\ entry = "none"
    /\ request = NoRequest
    /\ avmValue = 0
    /\ response = NoResponse
    /\ calls = <<>>
    /\ loading = NoScreen

AddAdjusted ==
    /\ pc = "collect"
    /\ Len(rawComparables) < MaxAdjusted
    /\ \E p \in AdjustedPriceValues :
          rawComparables' = Append(rawComparables,
              [BaseCandidate EXCEPT !.adjustedPrice = p, !.ref = Len(rawComparables) + 1])
    /\ UNCHANGED <<pc, today, property, comparables, marketValue, confidence>>
    /\ UNCHANGED handlerVars
    /\ UNCHANGED loading

\* comparableService.calculateMarketValue(rawComparables)
CallMarketValue ==
    /\ pc = "collect"
    /\ pc' = "aggregated"
    /\ marketValue' \in calculateMarketValueOutcomes(rawComparables)
    /\ UNCHANGED <<today, property, rawComparables, comparables, confidence>>
    /\ UNCHANGED handlerVars
    /\ UNCHANGED loading

\* comparableService.calculateConfidence(rawComparables)
CallConfidence ==
    /\ pc = "collect"
    /\ pc' = "scored"
    /\ confidence' = calculateConfidence(rawComparables)
    /\ UNCHANGED <<today, property, rawComparables, comparables, marketValue>>
    /\ UNCHANGED handlerVars
    /\ UNCHANGED loading

NextAggregate == AddAdjusted \/ CallMarketValue \/ CallConfidence

SpecAggregate == InitAggregate /\ [][NextAggregate]_vars

(***************************************************************************)
(* Specification of the assessment: the part of the analysis that follows  *)
(* the provider calls (blend, difference, verdict, savings), applied to a  *)
(* subject, a list of adjusted comparables and an AVM value.               *)
(***************************************************************************)
\* currentAssessedValue of the subject: absent, 0, negative, positive
AssessedValues == {NaN, 0, 0 - Dollars(100000), Dollars(400000), Dollars(500000)}

\* adjusted prices at, just inside and just outside 5% of the positive
\* assessed values
SalePriceValues ==
    {Dollars(379950), Dollars(380000), Dollars(420000), Dollars(420050),
     Dollars(474950), Dollars(475000), Dollars(525000), Dollars(525050),
     Dollars(440000)}

AvmValues == {0, Dollars(410000)}

InitVerdict ==
    /\ pc = "sales"
    /\ today = MkDate(2025, 6, 15, 1)
    /\ property \in {[BaseSubject EXCEPT !.currentAssessedValue = a] : a \in AssessedValues}
    /\ rawComparables = <<>>
    /\ comparables = <<>>
    /\ marketValue = 0
    /\ confidence = "low"
    /\ entry = "none"
    /\ request = NoRequest
    /\ avmValue = 0
    /\ response = NoResponse
    /\ calls = <<>>
    /\ loading = NoScreen

AddSale ==
    /\ pc = "sales"
    /\ Len(rawComparables) < MaxSales
    /\ \E p \in SalePriceValues :
          rawComparables' = Append(rawComparables,
              [BaseCandidate EXCEPT !.adjustedPrice = p, !.ref = Len(rawComparables) + 1])
    /\ UNCHANGED <<pc, today, property, comparables, marketValue, confidence>>
    /\ UNCHANGED handlerVars
    /\ UNCHANGED loading

\* the analysis from calculateMarketValue on, for an AVM value avm
CallAssess ==
    /\ pc = "sales"
    /\ pc' = "assessed"
    /\ \E avm \in AvmValues :
          /\ avmValue' = avm
          /\ comparables' = rawComparables
          /\ marketValue' = calculateMarketValue(rawComparables)
          /\ confidence' = calculateConfidence(rawComparables)
          /\ response' = [kind |-> "return", status |-> 0, error |-> "",
                          analysis |-> buildAnalysis(property, rawComparables,
                                           calculateMarketValue(rawComparables),
                                           calculateConfidence(rawComparables), avm)]
    /\ UNCHANGED <<today, property, rawComparables, entry, request, calls>>
    /\ UNCHANGED loading

NextVerdict == AddSale \/ CallAssess

SpecVerdict == InitVerdict /\ [][NextVerdict]_vars

(***************************************************************************)
(* Specification of the analysis: one request served by the POST handler   *)
(* of /api/analysis or /api/property, by AnalysisService.analyzeProperty   *)
(* or by AnalysisService.getAnalysisByPropertyId.  Every await of a        *)
(* provider call is a step of its own; the code between two awaits is part *)
(* of the step that resumes it.                                            *)
(***************************************************************************)
BaseRecord ==
    [id |-> 1, squareFootage |-> 2000, bedrooms |-> 3, bathrooms |-> 2, lotSize |-> 250,
     yearBuilt |-> 2010, assessedValue |-> Dollars(500000), latitude |-> 1000]

\* RentCastPropertyRecord values the provider may return
PropertyRecords ==
    {BaseRecord,
     [BaseRecord EXCEPT !.assessedValue = NaN],
     [BaseRecord EXCEPT !.assessedValue = Dollars(400000), !.id = 0],
     [BaseRecord EXCEPT !.squareFootage = 0, !.latitude = NaN]}

VerifiedProperties == {mapToProperty(BaseRecord), mapToProperty([BaseRecord EXCEPT !.assessedValue = 0])}

BaseListing ==
    [squareFootage |-> 2000, bedrooms |-> 3, bathrooms |-> 2, lotSize |-> 250,
     yearBuilt |-> 2010, price |-> Dollars(440000), lastSalePrice |-> NaN, status |-> "Sold",
     lastSaleDate |-> MkDate(2025, 5, 1, 0), removedDate |-> NoDate, listedDate |-> NoDate,
     distance |-> 30, latitude |-> 1050]

\* RentCastComparable values the provider may return
ListingPool ==
    {BaseListing,
     [BaseListing EXCEPT !.squareFootage = 2100, !.bedrooms = 4, !.yearBuilt = 2005,
                         !.price = Dollars(470000), !.status = "Inactive", !.lastSaleDate = NoDate,
                         !.removedDate = MkDate(2025, 4, 10, 0),
                         !.distance = NaN, !.latitude = NaN],
     [BaseListing EXCEPT !.price = Dollars(455000), !.distance = NaN, !.latitude = 1200],
     [BaseListing EXCEPT !.status = "Active", !.lastSaleDate = NoDate,
                         !.listedDate = MkDate(2025, 5, 20, 0)]}

ListingBodies == UNION {[1..n -> ListingPool] : n \in 0..MaxListings}

AddressKinds == {"valid", "empty", "missing", "nonString"}

\* json is FALSE for a body that is not JSON or is the JSON value null:
\* request.json() or the destructuring of the body throws, so no address is read
RouteRequests ==
    {[json |-> FALSE, address |-> "missing", verifiedProperty |-> NoProperty]}
    \cup {[json |-> TRUE, address |-> a, verifiedProperty |-> v] :
             a \in AddressKinds, v \in {NoProperty} \cup VerifiedProperties}

ServiceRequests == {[json |-> TRUE, address |-> "valid", verifiedProperty |-> NoProperty]}

\* bodies sent to /api/property, which reads no verifiedProperty
PropertyRequests == {req \in RouteRequests : req.verifiedProperty = NoProperty}

\* what denverAssessorService.searchPropertyByAddress may do
DenverOutcomes == {[kind |-> k] : k \in {"found", "none", "error"}}

PropertiesOutcomes ==
    {[kind |-> "ok", record |-> r] : r \in PropertyRecords}
    \cup {[kind |-> k, record |-> BaseRecord] :
             k \in {"empty", "errorWrapper", "nonArray", "http404", "http429", "networkError"}}

\* what GET /properties/{id} may answer
PropertyByIdOutcomes ==
    {[kind |-> "ok", record |-> r] : r \in PropertyRecords}
    \cup {[kind |-> k, record |-> BaseRecord] : k \in {"http404", "http429", "networkError"}}

ListingsOutcomes ==
    {[kind |-> "ok", data |-> body] : body \in ListingBodies}
    \cup {[kind |-> k, data |-> <<>>] :
             k \in {"nonArray", "http400", "http404", "http429", "http500", "networkError"}}

AvmOutcomes ==
    {[kind |-> "ok", price |-> v, hasSubject |-> h] : v \in {NaN, 0, Dollars(410000)}, h \in BOOLEAN}
    \cup {[kind |-> k, price |-> 0, hasSubject |-> FALSE] : k \in {"http404", "http429", "networkError"}}

EstimateOutcomes ==
    {[kind |-> "ok", estimate |-> v] : v \in {NaN, Dollars(420000)}}
    \cup {[kind |-> k, estimate |-> 0] : k \in {"http404", "http429", "networkError"}}

Call(endpoint, outcome) == [endpoint |-> endpoint, outcome |-> outcome.kind]

Init ==
    /\ pc = "idle"
    /\ today = MkDate(2025, 6, 15, 1)
    /\ property = NoProperty
    /\ rawComparables = <<>>
    /\ comparables = <<>>
    /\ marketValue = 0
    /\ confidence = "low"
    /\ entry = "none"
    /\ request = NoRequest
    /\ avmValue = 0
    /\ response = NoResponse
    /\ calls = <<>>
    /\ loading = NoScreen

\* POST /api/analysis looking the address up even when verifiedProperty is sent
PostIgnoringVerifiedProperty ==
    /\ pc = "idle"
    /\ \E req \in RouteRequests :
          /\ request' = req
          /\ entry' = "route"
          /\ IF ~req.json
             THEN /\ response' = failure("route", MsgBadJson)
                  /\ pc' = "done"
                  /\ UNCHANGED property
             ELSE IF req.address # "valid"
             THEN /\ response' = [kind |-> "json", status |-> 400,
                                  error |-> "Address is required and must be a string",
                                  analysis |-> NoAnalysis]
                  /\ pc' = "done"
                  /\ UNCHANGED property
             ELSE /\ pc' = "lookup"
                  /\ UNCHANGED <<property, response>>
    /\ UNCHANGED <<today, rawComparables, comparables, marketValue, confidence, avmValue, calls>>
    /\ UNCHANGED loading

\* POST /api/analysis up to its first await of a provider call
Post ==
    /\ pc = "idle"
    /\ \E req \in RouteRequests :
          /\ request' = req
          /\ entry' = "route"
          /\ IF ~req.json
             THEN /\ response' = failure("route", MsgBadJson)
                  /\ pc' = "done"
                  /\ UNCHANGED property
             ELSE IF req.address # "valid"
             THEN /\ response' = [kind |-> "json", status |-> 400,
                                  error |-> "Address is required and must be a string",
                                  analysis |-> NoAnalysis]
                  /\ pc' = "done"
                  /\ UNCHANGED property
             ELSE IF req.verifiedProperty # NoProperty
             THEN /\ property' = req.verifiedProperty
                  /\ pc' = "comps"
                  /\ UNCHANGED response
             ELSE /\ pc' = "lookup"
                  /\ UNCHANGED <<property, response>>
    /\ UNCHANGED <<today, rawComparables, comparables, marketValue, confidence, avmValue, calls>>
    /\ UNCHANGED loading

\* POST /api/property up to its await of lookupProperty
PostProperty ==
    /\ pc = "idle"
    /\ \E req \in PropertyRequests :
          /\ request' = req
          /\ entry' = "property"
          /\ IF ~req.json
             THEN /\ response' = failure("property", MsgBadJson)
                  /\ pc' = "done"
             ELSE IF req.address # "valid"
             THEN /\ response' = [kind |-> "json", status |-> 400,
                                  error |-> "Address is required and must be a string",
                                  analysis |-> NoAnalysis]
                  /\ pc' = "done"
             ELSE /\ pc' = "lookup"
                  /\ UNCHANGED response
    /\ UNCHANGED <<serviceVars_but_pc, avmValue, calls>>
    /\ UNCHANGED loading

\* AnalysisService.analyzeProperty(address) up to its first await
AnalyzeProperty ==
    /\ pc = "idle"
    /\ \E req \in ServiceRequests : request' = req
    /\ entry' = "service"
    /\ pc' = "lookup"
    /\ UNCHANGED <<serviceVars_but_pc, avmValue, response, calls>>
    /\ UNCHANGED loading

\* AnalysisService.getAnalysisByPropertyId(propertyId) up to its first await
GetAnalysisByPropertyId ==
    /\ pc = "idle"
    /\ request' = [json |-> TRUE, address |-> "byId", verifiedProperty |-> NoProperty]
    /\ entry' = "byId"
    /\ pc' = "lookupById"
    /\ UNCHANGED <<serviceVars_but_pc, avmValue, response, calls>>
    /\ UNCHANGED loading

\* getAnalysisByPropertyId: propertyService.getPropertyById settles
LookupByIdSettles ==
    /\ pc = "lookupById"
    /\ \E outcome \in PropertyByIdOutcomes :
          LET r == getPropertyById(outcome)
          IN /\ calls' = Append(calls, Call("/properties/{id}", outcome))
             /\ IF r.kind = "value"
                THEN /\ property' = r.value
                     /\ pc' = "compsById"
                     /\ UNCHANGED response
                ELSE /\ response' = failure(entry, r.message)
                     /\ pc' = "done"
                     /\ UNCHANGED property
    /\ UNCHANGED <<today, rawComparables, comparables, marketValue, confidence,
                   entry, request, avmValue>>
    /\ UNCHANGED loading

\* getAnalysisByPropertyId: getComparableSales settles; processComparables
\* runs and the analysis is returned
ListingsSettleById ==
    /\ pc = "compsById"
    /\ \E outcome \in ListingsOutcomes :
          LET r == getComparableSales(property, outcome, today)
          IN /\ calls' = Append(calls, Call("/listings/sale", outcome))
             /\ pc' = "done"
             /\ IF r.kind = "value"
                THEN \E result \in processComparables(r.value, property, today) :
                        /\ rawComparables' = result.heap
                        /\ comparables' = result.comparables
                        /\ marketValue' = result.marketValue
                        /\ confidence' = result.confidence
                        /\ response' = [kind |-> "return", status |-> 0, error |-> "",
                                        analysis |-> getAnalysisByPropertyIdResult(
                                                        property, result.comparables,
                                                        result.marketValue, result.confidence)]
                ELSE /\ response' = failure(entry, r.message)
                     /\ UNCHANGED <<rawComparables, comparables, marketValue, confidence>>
    /\ UNCHANGED <<today, property, entry, request, avmValue>>
    /\ UNCHANGED loading

\* the body /api/property answers with: the property and denverAssessorData
propertyResponse == [kind |-> "json", status |-> 200, error |-> "", analysis |-> NoAnalysis]

\* propertyService.lookupProperty(address) settles; /api/property goes on to
\* the Denver assessor when the property is in Denver, CO
LookupSettles ==
    /\ pc = "lookup"
    /\ \E outcome \in PropertiesOutcomes :
          LET r == lookupProperty(outcome)
          IN /\ calls' = Append(calls, Call("/properties", outcome))
             /\ IF r.kind = "value" /\ entry = "property"
                THEN /\ property' = r.value
                     /\ \E isDenverProperty \in BOOLEAN :
                           IF isDenverProperty
                           THEN pc' = "denver" /\ UNCHANGED response
                           ELSE pc' = "done" /\ response' = propertyResponse
                ELSE IF r.kind = "value"
                THEN /\ property' = r.value
                     /\ pc' = "comps"
                     /\ UNCHANGED response
                ELSE /\ response' = failure(entry, r.message)
                     /\ pc' = "done"
                     /\ UNCHANGED property
    /\ UNCHANGED <<today, rawComparables, comparables, marketValue, confidence,
                   entry, request, avmValue>>
    /\ UNCHANGED loading

\* /api/property: searchPropertyByAddress settles; a failure is logged only
DenverSettles ==
    /\ pc = "denver"
    /\ \E outcome \in DenverOutcomes :
          calls' = Append(calls, Call("denverAssessor", outcome))
    /\ response' = propertyResponse
    /\ pc' = "done"
    /\ UNCHANGED <<serviceVars_but_pc, entry, request, avmValue>>
    /\ UNCHANGED loading

\* propertyService.getComparableSales settles; processComparables runs and
\* getPropertyValuation is called
ListingsSettle ==
    /\ pc = "comps"
    /\ \E outcome \in ListingsOutcomes :
          LET r == getComparableSales(property, outcome, today)
          IN /\ calls' = Append(calls, Call("/listings/sale", outcome))
             /\ IF r.kind = "value"
                THEN /\ \E result \in processComparables(r.value, property, today) :
                          /\ rawComparables' = result.heap
                          /\ comparables' = result.comparables
                          /\ marketValue' = result.marketValue
                          /\ confidence' = result.confidence
                     /\ pc' = "avm"
                     /\ UNCHANGED response
                ELSE /\ response' = failure(entry, r.message)
                     /\ pc' = "done"
                     /\ UNCHANGED <<rawComparables, comparables, marketValue, confidence>>
    /\ UNCHANGED <<today, property, entry, request, avmValue>>
    /\ UNCHANGED loading

\* the rest of the analysis once getPropertyValuation has settled
Finish(avmResult) ==
    /\ avmValue' = avmValueOf(avmResult)
    /\ response' = completeAnalysis(entry, property, comparables, marketValue, confidence, avmResult)
    /\ pc' = "done"

\* AvmSettles answering on a 404 while the fallback lookup is still under way
AvmSettlesAnsweringBeforeFallback ==
    /\ pc = "avm"
    /\ \E outcome \in AvmOutcomes :
          /\ calls' = Append(calls, Call("/avm/value", outcome))
          /\ IF outcome.kind = "http404"
             THEN /\ pc' = "avmProperty"
                  /\ avmValue' = 0
                  /\ response' = completeAnalysis(entry, property, comparables,
                                                  marketValue, confidence, Null)
             ELSE Finish(valuationOfAvm(outcome))
    /\ UNCHANGED <<serviceVars_but_pc, entry, request>>
    /\ UNCHANGED loading

\* GET /avm/value settles: 404 starts the fallback, anything else ends the lookup
AvmSettles ==
    /\ pc = "avm"
    /\ \E outcome \in AvmOutcomes :
          /\ calls' = Append(calls, Call("/avm/value", outcome))
          /\ IF outcome.kind = "http404"
             THEN /\ pc' = "avmProperty"
                  /\ UNCHANGED <<avmValue, response>>
             ELSE Finish(valuationOfAvm(outcome))
    /\ UNCHANGED <<serviceVars_but_pc, entry, request>>
    /\ UNCHANGED loading

\* the fallback's getPropertyByAddress settles
AvmPropertySettles ==
    /\ pc = "avmProperty"
    /\ \E outcome \in PropertiesOutcomes :
          LET r == getPropertyByAddress(outcome)
          IN /\ calls' = Append(calls, Call("/properties", outcome))
             /\ IF r.kind = "value" /\ Truthy(r.value.id)
                THEN /\ pc' = "avmEstimate"
                     /\ UNCHANGED <<avmValue, response>>
                ELSE Finish(Null)
    /\ UNCHANGED <<serviceVars_but_pc, entry, request>>
    /\ UNCHANGED loading

\* the fallback's getValueEstimate settles
AvmEstimateSettles ==
    /\ pc = "avmEstimate"
    /\ \E outcome \in EstimateOutcomes :
          LET valueEstimate == getValueEstimate(outcome)
          IN /\ calls' = Append(calls, Call("/properties/{id}/value-estimate", outcome))
             /\ Finish(IF Truthy(valueEstimate) THEN Value(valueEstimate) ELSE Null)
    /\ UNCHANGED <<serviceVars_but_pc, entry, request>>
    /\ UNCHANGED loading

Next ==
    \/ Post
    \/ PostProperty
    \/ AnalyzeProperty
    \/ GetAnalysisByPropertyId
    \/ LookupSettles
    \/ LookupByIdSettles
    \/ ListingsSettleById
    \/ DenverSettles
    \/ ListingsSettle
    \/ AvmSettles
    \/ AvmPropertySettles
    \/ AvmEstimateSettles

Spec == Init /\ [][Next]_vars

(***************************************************************************)
(* The six similarity predicates of the filter contract                    *)
(***************************************************************************)
IsNumber(x) == x # NaN

\* 0.8 <= candidate.sqft / subject.sqft <= 1.2, the ratio being computable
SizeWithinTolerance(c, s) ==
    /\ IsNumber(c.sqft) /\ IsNumber(s.sqft) /\ s.sqft > 0
    /\ 8 * s.sqft <= 10 * c.sqft
    /\ 10 * c.sqft <= 12 * s.sqft

BedroomsWithinOne(c, s) ==
    /\ IsNumber(c.bedrooms) /\ IsNumber(s.bedrooms)
    /\ c.bedrooms - s.bedrooms \in -1..1

BathroomsWithinOne(c, s) ==
    /\ IsNumber(c.bathrooms) /\ IsNumber(s.bathrooms)
    /\ c.bathrooms - s.bathrooms \in -1..1

\* 0.75 <= candidate.lotSize / subject.lotSize <= 1.25, the ratio being computable
LotWithinTolerance(c, s) ==
    /\ IsNumber(c.lotSize) /\ IsNumber(s.lotSize) /\ s.lotSize > 0
    /\ 75 * s.lotSize <= 100 * c.lotSize
    /\ 100 * c.lotSize <= 125 * s.lotSize

WithinOneMile(c) == IsNumber(c.distanceMiles) /\ c.distanceMiles <= MileScale

SoldWithinSixMonths(c, now) == ~DateLt(c.saleDate, SetMonthBack(now, 6))

SatisfiesAllSix(c, s, now) ==
    /\ SizeWithinTolerance(c, s)
    /\ BedroomsWithinOne(c, s)
    /\ BathroomsWithinOne(c, s)
    /\ LotWithinTolerance(c, s)
    /\ WithinOneMile(c)
    /\ SoldWithinSixMonths(c, now)

\* a threshold is missed by a value that can be compared with it
MissesAThreshold(c, s, now) ==
    \/ IsNumber(c.sqft) /\ IsNumber(s.sqft) /\ s.sqft > 0
       /\ (10 * c.sqft < 8 * s.sqft \/ 10 * c.sqft > 12 * s.sqft)
    \/ IsNumber(c.bedrooms) /\ IsNumber(s.bedrooms) /\ c.bedrooms - s.bedrooms \notin -1..1
    \/ IsNumber(c.bathrooms) /\ IsNumber(s.bathrooms) /\ c.bathrooms - s.bathrooms \notin -1..1
    \/ IsNumber(c.lotSize) /\ IsNumber(s.lotSize) /\ s.lotSize > 0
       /\ (100 * c.lotSize < 75 * s.lotSize \/ 100 * c.lotSize > 125 * s.lotSize)
    \/ IsNumber(c.distanceMiles) /\ c.distanceMiles > MileScale
    \/ DateLt(c.saleDate, SetMonthBack(now, 6))

RECURSIVE Restrict(_, _, _)
\* the elements of seq at the positions in K, in order, from position i on
Restrict(seq, K, i) ==
    IF i > Len(seq) THEN <<>>
    ELSE (IF i \in K THEN <<seq[i]>> ELSE <<>>) \o Restrict(seq, K, i + 1)

(***************************************************************************)
(* C1: every comparable returned by filterComparables satisfies all six    *)
(* predicates against the subject (size ratio in [0.8, 1.2], bedrooms and  *)
(* bathrooms within 1, lot ratio in [0.75, 1.25], distance <= 1 mile, sold *)
(* within six months), also when a ratio cannot be computed.               *)
(***************************************************************************)
C1_FilterCorrectness ==
    pc = "filtered" =>
        \A i \in 1..Len(comparables) : SatisfiesAllSix(comparables[i], property, today)

(***************************************************************************)
(* C2: filterComparables keeps every candidate that satisfies all six      *)
(* predicates, returns only elements of the input list (in input order),   *)
(* and keeps no candidate that misses a threshold, however few survive.    *)
(***************************************************************************)
C2_FilterKeepsExactly ==
    pc = "filtered" =>
        \E K \in SUBSET (1..Len(rawComparables)) :
            /\ comparables = Restrict(rawComparables, K, 1)
            /\ \A i \in 1..Len(rawComparables) :
                 SatisfiesAllSix(rawComparables[i], property, today) => i \in K
            /\ \A i \in K : ~MissesAThreshold(rawComparables[i], property, today)

\* one qualifying candidate kept, one candidate beyond a threshold dropped,
\* fewer than three survivors
C2_Witness ==
    /\ pc = "filtered"
    /\ Len(rawComparables) = 2
    /\ Len(comparables) = 1
    /\ SatisfiesAllSix(comparables[1], property, today)
    /\ \E i \in 1..2 : MissesAThreshold(rawComparables[i], property, today)

(***************************************************************************)
(* The adjustment table of the contract                                    *)
(***************************************************************************)
FeatureOf(name, r) ==
    CASE name = "size" -> r.sqft
      [] name = "bedroom" -> r.bedrooms
      [] name = "bathroom" -> r.bathrooms
      [] name = "lotSize" -> r.lotSize
      [] name = "age" -> r.yearBuilt

\* minus (candidate value minus subject value) times the rate of the feature,
\* in units of 50 dollars; lot sizes are in thousandths of an acre, so 50,000
\* dollars per acre is 50 dollars per thousandth
ExpectedAdjustment(name, c, s) ==
    LET cv == FeatureOf(name, c)
        sv == FeatureOf(name, s)
    IN IF cv = NaN \/ sv = NaN THEN NaN
       ELSE CASE name = "size" -> (0 - (cv - sv) * 150) \div 50
              [] name = "bedroom" -> (0 - (cv - sv) * 25000) \div 50
              [] name = "bathroom" -> (0 - (cv - sv) * 15000) \div 50
              [] name = "lotSize" -> (0 - (cv - sv) * 50) \div 50
              [] name = "age" -> (0 - (cv - sv) * 1000) \div 50

ExpectedAdjustedPrice(c, s) ==
    LET e(name) == ExpectedAdjustment(name, c, s)
    IN IF \E name \in AdjustmentNames : e(name) = NaN THEN NaN
       ELSE c.salePrice + e("size") + e("bedroom") + e("bathroom") + e("lotSize") + e("age")

KthSmallest(prices, k) ==
    LET idx == 1..Len(prices)
    IN CHOOSE v \in {prices[i] : i \in idx} :
          /\ Cardinality({i \in idx : prices[i] < v}) < k
          /\ k <= Cardinality({i \in idx : prices[i] <= v})

\* median of ranks floor(n/5) + 1 .. n - floor(n/5), in twentieths of a unit
ExpectedTrimmedMedian(prices) ==
    LET n == Len(prices)
        rc == n \div 5
        m == n - 2 * rc
    IN IF m % 2 = 1
       THEN 20 * KthSmallest(prices, rc + (m + 1) \div 2)
       ELSE 10 * (KthSmallest(prices, rc + m \div 2) + KthSmallest(prices, rc + m \div 2 + 1))

Succeeded ==
    /\ pc = "done"
    /\ entry # "property"
    /\ \/ response.kind = "json" /\ response.status = 200
       \/ response.kind = "return"

\* processComparables has run for the request
Processed == pc \in {"avm", "avmProperty", "avmEstimate"} \/ Succeeded

\* the tier table of the contract
TierOf(n) ==
    IF n >= 5 THEN "high"
    ELSE IF n \in {3, 4} THEN "medium"
    ELSE "low"

TierRank(level) ==
    CASE level = "low" -> 0
      [] level = "medium" -> 1
      [] level = "high" -> 2

C9_Blend ==
    Succeeded =>
        IF avmValue # 0 /\ Len(comparables) < 3
        THEN 10 * response.analysis.marketValue = 7 * marketValue + 3 * (20 * avmValue)
        ELSE response.analysis.marketValue = marketValue

\* two comparables and an AVM value: the reported value is the blend
C9_Witness ==
    /\ Succeeded
    /\ avmValue # 0
    /\ Len(comparables) = 2
    /\ response.analysis.marketValue # marketValue

(***************************************************************************)
(* C10: any failure of the AVM lookup (network error, 429, 404 followed by *)
(* a failing fallback call) is treated as "AVM unavailable": the analysis  *)
(* completes with a result computed from the comparables only, never with  *)
(* an error response or exception.                                         *)
(***************************************************************************)
IsFailure(outcome) == outcome \in {"http404", "http429", "networkError", "empty",
                                   "errorWrapper", "nonArray"}

\* the AVM lookup of the request ended in a failed provider call
AvmLookupFailed ==
    /\ pc = "done"
    /\ \E i \in 1..Len(calls) :
          /\ calls[i].endpoint = "/avm/value"
          /\ IsFailure(calls[i].outcome)
          /\ IsFailure(calls[Len(calls)].outcome)

C10_AvmFailureTolerated ==
    AvmLookupFailed =>
        /\ Succeeded
        /\ avmValue = 0
        /\ response.analysis.marketValue = marketValue
        /\ response.analysis.confidence.sampleSize = Len(comparables)

\* /avm/value answered 404 and the fallback property lookup was rate-limited
C10_Witness ==
    /\ AvmLookupFailed
    /\ Len(calls) >= 2
    /\ calls[Len(calls) - 1] = [endpoint |-> "/avm/value", outcome |-> "http404"]
    /\ calls[Len(calls)] = [endpoint |-> "/properties", outcome |-> "http429"]
    /\ Succeeded
    /\ Len(comparables) >= 1

(***************************************************************************)
(* Verdict and savings of an assessment                                    *)
(***************************************************************************)
\* the assessment has been applied to the subject and its adjusted comparables
Assessed == pc = "assessed"

AbsOf(x) == IF x < 0 THEN 0 - x ELSE x

C12_NoAssessedValue ==
    (Assessed /\ (property.currentAssessedValue = NaN \/ property.currentAssessedValue <= 0)) =>
        /\ response.kind = "return"
        /\ response.analysis.pctNum = 0
        /\ response.analysis.verdict = "fair"

\* a negative assessed value against a final value of 440,000
C12_Witness ==
    /\ Assessed
    /\ property.currentAssessedValue # NaN
    /\ property.currentAssessedValue < 0
    /\ response.analysis.marketValue = 20 * Dollars(440000)
    /\ response.analysis.verdict = "fair"

ComparablesRetrieved ==
    \E i \in 1..Len(calls) :
        calls[i].endpoint = "/listings/sale" /\ calls[i].outcome # "http429"

\* the request is finished and none of the retrieved comparables survived
NoComparableSurvived ==
    /\ pc = "done"
    /\ entry \in {"route", "service"}
    /\ ComparablesRetrieved
    /\ Len(comparables) = 0

C15_NoVerdictOnZeroMarketValue ==
    (NoComparableSurvived /\ avmValue = 0) =>
        ~ /\ Succeeded
          /\ response.analysis.marketValue = 0
          /\ \/ response.analysis.verdict = "over-assessed"
                   /\ response.analysis.annualSavings > 0
             \/ response.analysis.verdict = "fair"
             \/ response.analysis.verdict = "under-assessed"

(***************************************************************************)
(* Answers of the endpoints to provider failures                           *)
(***************************************************************************)
\* the request came in through one of the two HTTP endpoints and is answered
Answered == pc = "done" /\ entry \in {"route", "property"}

\* the subject-property lookup of the request ended with this outcome
\* (the lookup is the first provider call of a request without verifiedProperty;
\* the AVM fallback's call of /properties is never the first)
LookupOutcomeIs(kinds) ==
    /\ Len(calls) >= 1
    /\ calls[1].endpoint = "/properties"
    /\ calls[1].outcome \in kinds

\* the comparable-sales retrieval of the request ended with this outcome
ListingsOutcomeIs(kinds) ==
    \E i \in 1..Len(calls) :
        calls[i].endpoint = "/listings/sale" /\ calls[i].outcome \in kinds

(***************************************************************************)
(* C16: whenever a data-provider call made while serving a request fails   *)
(* because the upstream is rate-limited (HTTP 429 on the subject-property  *)
(* lookup or on the comparable-sales retrieval), the endpoint responds     *)
(* with HTTP status 429, not 500.                                          *)
(***************************************************************************)
C16_RateLimitIs429 ==
    (Answered /\ (LookupOutcomeIs({"http429"}) \/ ListingsOutcomeIs({"http429"}))) =>
        response.status = 429

C18_BadAddressIs400 ==
    (entry \in {"route", "property"} /\ request.address # "valid") =>
        /\ pc = "done"
        /\ response.kind = "json"
        /\ response.status = 400
        /\ calls = <<>>

C20_ZeroSubjectAttributeExcludesAll ==
    (pc = "filtered" /\ (property.sqft = 0 \/ property.lotSize = 0)) =>
        comparables = <<>>

(***************************************************************************)
(* C21: in every analysis result, difference = assessedValue - marketValue *)
(* where marketValue is the final (possibly AVM-blended) value reported in *)
(* the same result, assessedValue is the subject's currentAssessedValue or *)
(* 0 if absent, and percentageDifference and verdict are derived from that *)
(* same difference.                                                        *)
(***************************************************************************)
C21_DifferenceOfReportedValues ==
    Succeeded =>
        LET a == response.analysis
        IN /\ a.property = property
           /\ a.assessedValue = (IF property.currentAssessedValue = NaN
                                 THEN 0 ELSE property.currentAssessedValue)
           /\ a.difference = 20 * a.assessedValue - a.marketValue
           /\ a.assessedValue > 0 =>
                 (a.pctNum = 100 * a.difference /\ a.pctDen = 20 * a.assessedValue)
           /\ a.assessedValue <= 0 => a.pctNum = 0
           /\ a.pctDen > 0
           /\ a.verdict = (IF AbsOf(a.pctNum) <= 5 * a.pctDen THEN "fair"
                           ELSE IF a.pctNum > 5 * a.pctDen THEN "over-assessed"
                           ELSE "under-assessed")

\* a blended result: the difference is taken from the blended value, which is
\* not the comparable-derived one
C21_Witness ==
    /\ Succeeded
    /\ response.analysis.assessedValue > 0
    /\ response.analysis.marketValue # marketValue
    /\ response.analysis.difference # 20 * response.analysis.assessedValue - marketValue
    /\ response.analysis.difference = 20 * response.analysis.assessedValue - response.analysis.marketValue

(***************************************************************************)
(* Order of the fetches and the result                                     *)
(***************************************************************************)
\* a result has been emitted for an analysis that consults the AVM
ResultEmitted == entry \in {"route", "service"} /\ response.analysis # NoAnalysis

\* the endpoints getPropertyValuation calls
AvmEndpoints == {"/avm/value", "/properties", "/properties/{id}/value-estimate"}

(***************************************************************************)
(* C22: in every analysis run, blending, verdict classification and        *)
(* emission of the result happen only after the comparable-sales retrieval *)
(* has completed and the AVM lookup has either returned a value or         *)
(* definitively failed; no result is ever emitted while either fetch is    *)
(* still pending.                                                          *)
(***************************************************************************)
C22_ResultAfterBothFetches ==
    /\ [](ResultEmitted =>
            /\ pc = "done"
            /\ \E i, j \in 1..Len(calls) :
                  /\ i < j
                  /\ calls[i].endpoint = "/listings/sale"
                  /\ calls[i].outcome # "http429"
                  /\ calls[j].endpoint = "/avm/value"
                  /\ \A k \in (j + 1)..Len(calls) : calls[k].endpoint \in AvmEndpoints
            /\ calls[Len(calls)] # [endpoint |-> "/avm/value", outcome |-> "http404"])
    /\ [][(~ResultEmitted /\ ResultEmitted') =>
            /\ pc \in {"avm", "avmProperty", "avmEstimate"}
            /\ pc' = "done"
            /\ Len(calls') = Len(calls) + 1
            /\ calls'[Len(calls')].endpoint \in AvmEndpoints
            /\ UNCHANGED <<property, rawComparables, comparables, marketValue, confidence>>]_vars

\* a result emitted after the retrieval, the 404 of /avm/value and both
\* fallback calls, blended with the fallback's estimate
C22_Witness ==
    /\ ResultEmitted
    /\ Len(calls) >= 4
    /\ calls[Len(calls) - 3].endpoint = "/listings/sale"
    /\ calls[Len(calls) - 2] = [endpoint |-> "/avm/value", outcome |-> "http404"]
    /\ calls[Len(calls)] = [endpoint |-> "/properties/{id}/value-estimate", outcome |-> "ok"]
    /\ avmValue # 0
    /\ response.analysis.marketValue # marketValue

C24_InputRecordsUntouched ==
    pc = "processed" =>
        \A i \in 1..Len(rawComparables) :
            /\ rawComparables[i].adjustments = NoAdjustments
            /\ rawComparables[i].adjustedPrice = rawComparables[i].salePrice

(***************************************************************************)
(* Distance of a retrieved comparable                                      *)
(***************************************************************************)
\* the retrieval is about to settle
RetrievalPending == pc = "comps"

\* the provider records the client keeps of the answer to GET /listings/sale
KeptListings(outcome) == rentCastGetComparableSales(outcome, MonthsBack, today).value

(***************************************************************************)
(* C25: a comparable's distanceMiles is the provider's pre-computed        *)
(* distance whenever the raw record carries one; the Haversine distance is *)
(* used only when the raw record lacks a distance and both the subject's   *)
(* and the comparable's coordinates are known.                             *)
(***************************************************************************)
C25_ProviderDistanceWins ==
    RetrievalPending =>
        \A outcome \in ListingsOutcomes :
            outcome.kind = "ok" =>
                LET kept == KeptListings(outcome)
                    mapped == getComparableSales(property, outcome, today).value
                IN /\ Len(mapped) = Len(kept)
                   /\ \A i \in 1..Len(kept) :
                         (kept[i].distance # NaN /\ kept[i].distance # 0)
                            => mapped[i].distanceMiles = kept[i].distance

\* the provider gave no distance and a coordinate pair is missing
DistanceUnknown(listing, subjectProperty) ==
    /\ listing.distance = NaN
    /\ (subjectProperty.latitude = NaN \/ listing.latitude = NaN)

(***************************************************************************)
(* C28: a comparable whose distance cannot be determined (the provider     *)
(* gives no distance and the subject or the comparable lacks coordinates)  *)
(* is assigned distanceMiles = 0 and therefore always satisfies the        *)
(* filter's distance predicate: the filter keeps it exactly when it keeps  *)
(* the same comparable at half a mile.                                     *)
(***************************************************************************)
C28_UnknownDistanceIsZero ==
    RetrievalPending =>
        \A outcome \in ListingsOutcomes :
            outcome.kind = "ok" =>
                LET kept == KeptListings(outcome)
                    mapped == getComparableSales(property, outcome, today).value
                IN \A i \in 1..Len(kept) :
                      DistanceUnknown(kept[i], property) =>
                         /\ mapped[i].distanceMiles = 0
                         /\ mapped[i].distanceMiles <= 100
                         /\ filterKeeps(mapped[i], property, today)
                               = filterKeeps([mapped[i] EXCEPT !.distanceMiles = 50], property, today)

\* a comparable of unknown distance went through the filter as one at 0 miles
C28_Witness ==
    /\ pc = "avm"
    /\ \E k \in 1..Len(comparables) : comparables[k].distanceMiles = 0
    /\ \E i \in 1..Len(rawComparables) :
          rawComparables[i].distanceMiles # 0 /\ rawComparables[i].distanceMiles # NaN

(***************************************************************************)
(* Requests carrying a verified property                                   *)
(***************************************************************************)
\* the request under way carries an address and a verifiedProperty object
VerifiedRequest ==
    /\ entry = "route"
    /\ request.json
    /\ request.address = "valid"
    /\ request.verifiedProperty # NoProperty

(***************************************************************************)
(* C26: when the analysis request carries a verifiedProperty object, the   *)
(* handler uses it as the subject and never calls lookupProperty for that  *)
(* request (so the response is never a lookup-caused 404); comparable-     *)
(* sales retrieval and the AVM lookup are still performed exactly as on    *)
(* the lookup path: the first provider call is GET /listings/sale, the     *)
(* second GET /avm/value, and GET /properties is called only by the AVM    *)
(* fallback after a 404 of /avm/value.                                     *)
(***************************************************************************)
C26_VerifiedPropertySkipsLookup ==
    VerifiedRequest =>
        /\ property = request.verifiedProperty
        /\ pc # "lookup"
        /\ response.status # 404
        /\ Len(calls) >= 1 => calls[1].endpoint = "/listings/sale"
        /\ Len(calls) >= 2 => calls[2].endpoint = "/avm/value"
        /\ \A i \in 1..Len(calls) :
              calls[i].endpoint = "/properties" =>
                  /\ i = 3
                  /\ calls[2] = [endpoint |-> "/avm/value", outcome |-> "http404"]
        /\ pc = "done" => Len(calls) >= 1
        /\ (pc = "done" /\ calls[1].outcome # "http429") =>
              /\ Len(calls) >= 2
              /\ response.status = 200
              /\ response.analysis.property = request.verifiedProperty

\* a verified request answered 200 after the retrieval and the AVM lookup
C26_Witness ==
    /\ VerifiedRequest
    /\ pc = "done"
    /\ response.status = 200
    /\ Len(calls) = 2
    /\ Len(comparables) >= 1

(***************************************************************************)
(* C27: for the same subject property, the same provider responses for     *)
(* comparable sales and AVM, and the same current date, the /api/analysis  *)
(* POST handler (address-lookup path) and AnalysisService.analyzeProperty  *)
(* produce identical comparables, marketValue, assessedValue, difference,  *)
(* percentageDifference, taxRate, savings, confidence and verdict; and     *)
(* AnalysisService.getAnalysisByPropertyId produces the same output as     *)
(* analyzeProperty whenever no AVM value is available.  Stated on every    *)
(* result: what one of the three has answered is what each of the others   *)
(* computes from the subject, the retrieved comparables and the AVM value  *)
(* of that run.                                                            *)
(***************************************************************************)
C27_SameAnalysis ==
    Succeeded =>
        LET ofHandler == buildAnalysis(property, comparables, marketValue, confidence, avmValue)
            ofService == analyzePropertyResult(property, comparables, marketValue,
                                               confidence, avmValue)
            ofById == getAnalysisByPropertyIdResult(property, comparables, marketValue,
                                                    confidence)
        IN /\ (entry = "route" /\ request.verifiedProperty = NoProperty)
                 => response.analysis = ofService
           /\ entry = "service" => response.analysis = ofHandler
           /\ (entry = "service" /\ avmValue = 0) => response.analysis = ofById
           /\ entry = "byId" =>
                 /\ avmValue = 0
                 /\ response.analysis = ofService
                 /\ response.analysis = ofHandler
           /\ \E r \in processComparables(rawComparables, property, today) :
                 /\ response.analysis.comparables = r.comparables
                 /\ response.analysis.confidence.level = r.confidence
                 /\ (avmValue = 0 \/ Len(r.comparables) >= 3)
                       => response.analysis.marketValue = r.marketValue

\* getAnalysisByPropertyId has returned an over-assessed verdict with savings
C27_Witness ==
    /\ Succeeded
    /\ entry = "byId"
    /\ Len(response.analysis.comparables) >= 1
    /\ response.analysis.verdict = "over-assessed"
    /\ response.analysis.annualSavings > 0

(***************************************************************************)
(* Specification of the loading screen: AnalysisLoading rendered by        *)
(* LoadingPageContent.  Time is counted in milliseconds and passes in      *)
(* steps of TimeStepMs; the interval of the effect and the timeouts it     *)
(* sets are the timers.  Each state update runs its updater once.          *)
(***************************************************************************)
TimeStepMs == 100       \* granularity of the clock
IntervalMs == 800
CompleteDelayMs == 500
ProgressFull == 100
ProgressStep == 10
StepWidthTenths == 333   \* 33.3
StepCount == 3           \* steps.length

\* Math.floor((prevProgress + 10) / 33.3)
newStepOf(prevProgress) == ((prevProgress + ProgressStep) * 10) \div StepWidthTenths

MinOf(a, b) == IF a < b THEN a ELSE b

\* the component has been mounted: both states are 0 and the effect has run
InitLoading ==
    /\ loading = [mounted |-> TRUE, progress |-> 0, currentStep |-> 0, interval |-> TRUE,
                  sinceTick |-> 0, timeouts |-> <<>>, back |-> FALSE, completed |-> 0,
                  pushed |-> <<>>]
    /\ pc = "loading"
    /\ today = MkDate(2025, 6, 15, 1)
    /\ property = NoProperty
    /\ rawComparables = <<>>
    /\ comparables = <<>>
    /\ marketValue = 0
    /\ confidence = "low"
    /\ entry = "none"
    /\ request = NoRequest
    /\ avmValue = 0
    /\ response = NoResponse
    /\ calls = <<>>

\* TimeStepMs pass without a timer being due
AdvanceTime ==
    /\ loading.interval \/ loading.timeouts # <<>>
    /\ loading.interval => loading.sinceTick < IntervalMs
    /\ \A i \in 1..Len(loading.timeouts) : loading.timeouts[i] > 0
    /\ loading' = [loading EXCEPT
                      !.sinceTick = IF loading.interval THEN @ + TimeStepMs ELSE @,
                      !.timeouts = [i \in 1..Len(@) |-> @[i] - TimeStepMs]]
    /\ UNCHANGED <<serviceVars, handlerVars>>

\* the interval callback with clearInterval left out of the updater
IntervalFiresKeepingInterval ==
    /\ loading.interval
    /\ loading.sinceTick >= IntervalMs
    /\ IF loading.progress >= ProgressFull
       THEN loading' = [loading EXCEPT !.sinceTick = 0,
                                       !.timeouts = Append(@, CompleteDelayMs),
                                       !.progress = ProgressFull]
       ELSE loading' = [loading EXCEPT !.sinceTick = 0,
                                       !.currentStep = MinOf(newStepOf(loading.progress),
                                                             StepCount - 1),
                                       !.progress = @ + ProgressStep]
    /\ UNCHANGED <<serviceVars, handlerVars>>

\* the interval callback: setProgress(updater)
IntervalFires ==
    /\ loading.interval
    /\ loading.sinceTick >= IntervalMs
    /\ IF loading.progress >= ProgressFull
       THEN loading' = [loading EXCEPT !.sinceTick = 0,
                                       !.interval = FALSE,
                                       !.timeouts = Append(@, CompleteDelayMs),
                                       !.progress = ProgressFull]
       ELSE loading' = [loading EXCEPT !.sinceTick = 0,
                                       !.currentStep = MinOf(newStepOf(loading.progress),
                                                             StepCount - 1),
                                       !.progress = @ + ProgressStep]
    /\ UNCHANGED <<serviceVars, handlerVars>>

\* a timeout set by the updater fires: onComplete(), which is handleComplete
TimeoutFires ==
    /\ \E i \in 1..Len(loading.timeouts) :
          /\ loading.timeouts[i] <= 0
          /\ loading' = [loading EXCEPT
                            !.timeouts = [k \in 1..(Len(@) - 1) |->
                                             IF k < i THEN @[k] ELSE @[k + 1]],
                            !.completed = @ + 1,
                            !.pushed = Append(@, "/analysis/results")]
    /\ UNCHANGED <<serviceVars, handlerVars>>

\* the Back button: onBack(), which is handleBack
ClickBack ==
    /\ loading.mounted
    /\ ~loading.back
    /\ loading' = [loading EXCEPT !.back = TRUE, !.pushed = Append(@, "/")]
    /\ UNCHANGED <<serviceVars, handlerVars>>

\* a navigation completes: the component unmounts and the effect's cleanup runs
Unmount ==
    /\ loading.mounted
    /\ loading.pushed # <<>>
    /\ loading' = [loading EXCEPT !.mounted = FALSE, !.interval = FALSE]
    /\ UNCHANGED <<serviceVars, handlerVars>>

NextLoading == AdvanceTime \/ IntervalFires \/ TimeoutFires \/ ClickBack \/ Unmount

SpecLoading == InitLoading /\ [][NextLoading]_vars

\* the clock runs and due timers fire
SpecLoadingFair ==
    /\ SpecLoading
    /\ WF_vars(AdvanceTime)
    /\ WF_vars(IntervalFires)
    /\ WF_vars(TimeoutFires)

C30_NoCompletionAfterBack ==
    [][(loading.back /\ ~loading.mounted) =>
          /\ loading'.completed = loading.completed
          /\ loading'.pushed = loading.pushed]_vars

====
